---- MODULE Spec2Model ----
(***************************************************************************)
(* SwimBench AI service (src/main.py).                                     *)
(*                                                                         *)
(* Two phases are modelled.  SpecStartup executes the module body          *)
(* statement by statement (load_dotenv, the os.getenv reads, the           *)
(* OPENAI_API_KEY check, the object graph, the CORS branch, the route      *)
(* decorators and the __main__ block).  Spec starts from the state after   *)
(* construction and runs the three auxiliary routes on one asyncio event   *)
(* loop: every step of a handler runs from one await to the next.          *)
(*                                                                         *)
(* Strings whose characters matter (environment values) are sequences of   *)
(* Unicode code points.                                                    *)
(***************************************************************************)
EXTENDS Integers, Sequences, FiniteSets, TLC

VARIABLES
    environ,      \* process environment at process start: name -> [present, value]
    dotenv,       \* contents of the .env file: name -> [present, value]
    runAsMain,    \* TRUE: python main.py (__name__ == "__main__"); FALSE: imported by an ASGI server
    uvicornOk,    \* TRUE: the import of uvicorn at line 254 succeeds
    os_environ,   \* os.environ as the module sees it
    spc,          \* position in the module body
    modvars,      \* module-level names bound by lines 27-34
    built,        \* module-level objects constructed so far (in order)
    middleware,   \* middleware installed on app
    routes,       \* routes registered on app by this module
    server,       \* [bound, port, reload]
    failure,      \* [kind, text] of the exception that ended startup
    now,          \* wall clock read by datetime.now()
    health,       \* last response of GET /health
    events,       \* last response of GET /events
    kb,           \* knowledge base contents: document -> number of copies
    dbUp,         \* external stores and remote URLs reachable
    raced,        \* history: some clear returned between the clear and the last add of another request
    pc,           \* per POST /loadknowledge request: index of the awaited call
    calls,        \* per request: external calls, their outcomes and log records
    resp          \* per request: HTTP response

startupVars == <<environ, dotenv, runAsMain, uvicornOk, os_environ, spc, modvars, built,
                 middleware, routes, server, failure>>
probeVars   == <<now, health, events>>
loadVars    == <<kb, dbUp, raced, pc, calls, resp>>
vars        == <<environ, dotenv, runAsMain, uvicornOk, os_environ, spc, modvars, built,
                 middleware, routes, server, failure, now, health, events,
                 kb, dbUp, raced, pc, calls, resp>>

(***************************************************************************)
(* Bounds                                                                  *)
(***************************************************************************)
NumReq == 2
MaxClock == 1

Requests == 1..NumReq

(***************************************************************************)
(* Strings                                                                 *)
(***************************************************************************)
S_empty       == << >>
\* "sk"
S_key         == <<115, 107>>
\* "production"
S_production  == <<112, 114, 111, 100, 117, 99, 116, 105, 111, 110>>
\* "Production"
S_Production  == <<80, 114, 111, 100, 117, 99, 116, 105, 111, 110>>
\* "development"
S_development == <<100, 101, 118, 101, 108, 111, 112, 109, 101, 110, 116>>
\* "8080"
S_8080        == <<56, 48, 56, 48>>
\* " 80"
S_sp80        == <<32, 56, 48>>
\* "-80"
S_minus80     == <<45, 56, 48>>
\* "\r80\r\n"
S_cr80crlf    == <<13, 56, 48, 13, 10>>
\* ARABIC-INDIC DIGIT EIGHT, ARABIC-INDIC DIGIT ZERO
S_arabic80    == <<1640, 1632>>
\* "abc"
S_abc         == <<97, 98, 99>>
\* "pg"
S_url         == <<112, 103>>

\* sys.int_info.default_max_str_digits of CPython 3.11
MaxStrDigits == 4300
\* "1" repeated MaxStrDigits + 1 times
S_long        == [i \in 1..(MaxStrDigits + 1) |-> 49]

C_plus == 43
C_minus == 45
C_underscore == 95

\* the code points of DIGIT ZERO of every decimal digit block (category Nd,
\* Unicode 14): int() accepts the ten digits that start at each of them
DigitZeros ==
    {48, 1632, 1776, 1984, 2406, 2534, 2662, 2790, 2918, 3046, 3174, 3302,
     3430, 3558, 3664, 3792, 3872, 4160, 4240, 6112, 6160, 6470, 6608,
     6784, 6800, 6992, 7088, 7232, 7248, 42528, 43216, 43264, 43472,
     43504, 43600, 44016, 65296, 66720, 68912, 69734, 69872, 69942, 70096,
     70384, 70736, 70864, 71248, 71360, 71472, 71904, 72016, 72784, 73040,
     73120, 92768, 92864, 93008, 120782, 120792, 120802, 120812, 120822,
     123200, 123632, 125264, 130032}
IsDigit(c) == \E z \in DigitZeros : c \in z..(z + 9)
DigitVal(c) == c - (CHOOSE z \in DigitZeros : c \in z..(z + 9))
\* the characters int() strips: \t \n \v \f \r, space, NEL, NBSP and the
\* Unicode space separators
WhiteSpace ==
    {9, 10, 11, 12, 13, 32, 133, 160, 5760, 8192, 8193, 8194, 8195, 8196,
     8197, 8198, 8199, 8200, 8201, 8202, 8232, 8233, 8239, 8287, 12288}
IsSpace(c) == c \in WhiteSpace

Absent == [present |-> FALSE, value |-> S_empty]
Val(s) == [present |-> TRUE, value |-> s]

EnvNames == {"OPENAI_API_KEY", "DATABASE_CONNECTION_STRING", "DATABASE_PORT",
             "ENV", "PORT"}

\* os.getenv(name): None when the variable is absent
NoneVal == [none |-> TRUE, s |-> S_empty]
StrVal(s) == [none |-> FALSE, s |-> s]
getenv(env, name) ==
    IF env[name].present THEN StrVal(env[name].value) ELSE NoneVal
\* os.getenv(name, default)
getenv_default(env, name, default) ==
    IF env[name].present THEN env[name].value ELSE default
\* Python truthiness of an Optional[str]
Truthy(v) == ~v.none /\ Len(v.s) > 0

\* load_dotenv(): variables of .env are added, existing ones are not overridden
load_dotenv(env, file) ==
    [n \in EnvNames |-> IF env[n].present THEN env[n] ELSE file[n]]

(***************************************************************************)
(* int(str), base 10: surrounding whitespace is stripped, then an optional *)
(* sign, then decimal digits with single underscores between digits.  The  *)
(* run of digits and underscores is scanned first: a misplaced underscore  *)
(* is an invalid literal, more than MaxStrDigits digits exceed the limit,  *)
(* and anything left after the run is an invalid literal.  Values are      *)
(* limited to the integers TLC can hold.                                   *)
(***************************************************************************)
Invalid == [ok |-> FALSE, n |-> 0, err |-> "invalid literal for int() with base 10"]
LimitExceeded ==
    [ok |-> FALSE, n |-> 0,
     err |-> "Exceeds the limit (4300 digits) for integer string conversion"]
Parsed(n) == [ok |-> TRUE, n |-> n, err |-> ""]

RECURSIVE lstrip(_)
lstrip(s) == IF Len(s) > 0 /\ IsSpace(Head(s)) THEN lstrip(Tail(s)) ELSE s
RECURSIVE rstrip(_)
rstrip(s) ==
    IF Len(s) > 0 /\ IsSpace(s[Len(s)]) THEN rstrip(SubSeq(s, 1, Len(s) - 1)) ELSE s
strip(s) == rstrip(lstrip(s))

\* digits of s from position i on, acc is the value so far;
\* prevDigit says whether position i-1 held a digit
RECURSIVE ParseDigits(_, _, _, _)
ParseDigits(s, i, acc, prevDigit) ==
    IF i > Len(s) THEN (IF prevDigit THEN Parsed(acc) ELSE Invalid)
    ELSE IF IsDigit(s[i]) THEN ParseDigits(s, i + 1, acc * 10 + DigitVal(s[i]), TRUE)
    ELSE IF s[i] = C_underscore /\ prevDigit THEN ParseDigits(s, i + 1, acc, FALSE)
    ELSE Invalid

\* the digits after the sign
ParseUnsigned(b) ==
    LET stops == {i \in 1..Len(b) : ~IsDigit(b[i]) /\ b[i] # C_underscore}
        end == IF stops = {} THEN Len(b) + 1
               ELSE CHOOSE i \in stops : \A j \in stops : i <= j
        misplaced ==
            \E i \in 1..(end - 1) :
                b[i] = C_underscore /\ (i = 1 \/ i = end - 1 \/ b[i + 1] = C_underscore)
        ndigits == Cardinality({i \in 1..(end - 1) : IsDigit(b[i])})
    IN  IF end = 1 \/ misplaced THEN Invalid
        ELSE IF ndigits > MaxStrDigits THEN LimitExceeded
        ELSE IF end <= Len(b) THEN Invalid
        ELSE ParseDigits(b, 1, 0, FALSE)

int_str(s) ==
    LET t == strip(s) IN
    IF Len(t) = 0 THEN Invalid
    ELSE IF Head(t) = C_minus THEN
        LET r == ParseUnsigned(Tail(t)) IN
        IF r.ok THEN Parsed(0 - r.n) ELSE r
    ELSE IF Head(t) = C_plus THEN ParseUnsigned(Tail(t))
    ELSE ParseUnsigned(t)

\* int(os.getenv("PORT", 8000)): the default is already an int
ParsePort(env) ==
    IF env["PORT"].present THEN int_str(env["PORT"].value) ELSE Parsed(8000)

(***************************************************************************)
(* Module body                                                             *)
(***************************************************************************)
\* module-level objects in construction order, lines 42-172
ObjectGraph == <<"db", "vector_db", "knowledge", "postgres_tools",
                 "swimbench_ai_agent", "agent_os", "app">>

CORSMiddleware ==
    [name |-> "CORSMiddleware", allow_origins |-> "*", allow_credentials |-> TRUE,
     allow_methods |-> "*", allow_headers |-> "*"]

RouteTable == {<<"POST", "/loadknowledge">>, <<"GET", "/health">>, <<"GET", "/events">>}

NoModvars == [OPENAI_API_KEY |-> NoneVal, DATABASE_CONNECTION_STRING |-> NoneVal,
              DATABASE_PORT |-> NoneVal, ENV |-> S_empty]
NoServer == [bound |-> FALSE, port |-> 0, reload |-> FALSE]
NoFailure == [kind |-> "none", text |-> ""]

\* line 26
LoadDotenv ==
    /\ spc = "load_dotenv"
    /\ os_environ' = load_dotenv(os_environ, dotenv)
    /\ spc' = "getenv"
    /\ UNCHANGED <<environ, dotenv, runAsMain, uvicornOk, modvars, built, middleware,
                   routes, server, failure>>
    /\ UNCHANGED <<probeVars, loadVars>>

\* lines 27-34: the module-level names read from os.environ
ReadModvars(env) ==
    [OPENAI_API_KEY |-> getenv(env, "OPENAI_API_KEY"),
     DATABASE_CONNECTION_STRING |-> getenv(env, "DATABASE_CONNECTION_STRING"),
     DATABASE_PORT |-> getenv(env, "DATABASE_PORT"),
     ENV |-> getenv_default(env, "ENV", S_development)]

\* lines 27-34
ReadEnv ==
    /\ spc = "getenv"
    /\ modvars' = ReadModvars(os_environ)
    /\ spc' = "check_key"
    /\ UNCHANGED <<environ, dotenv, runAsMain, uvicornOk, os_environ, built, middleware,
                   routes, server, failure>>
    /\ UNCHANGED <<probeVars, loadVars>>

\* variant of CheckKey: the test of line 36 is missing
CheckKey_unchecked ==
    /\ spc = "check_key"
    /\ spc' = "construct"
    /\ UNCHANGED <<environ, dotenv, runAsMain, uvicornOk, os_environ, modvars, built,
                   middleware, routes, server, failure>>
    /\ UNCHANGED <<probeVars, loadVars>>

\* lines 36-37
CheckKey ==
    /\ spc = "check_key"
    /\ IF ~Truthy(modvars.OPENAI_API_KEY)
       THEN /\ failure' = [kind |-> "ValueError",
                           text |-> "OPENAI_API_KEY not set in .env"]
            /\ spc' = "aborted"
       ELSE /\ failure' = failure
            /\ spc' = "construct"
    /\ UNCHANGED <<environ, dotenv, runAsMain, uvicornOk, os_environ, modvars, built,
                   middleware, routes, server>>
    /\ UNCHANGED <<probeVars, loadVars>>

\* lines 39-172: the next constructor of the object graph returns; the
\* environment-derived arguments are handed over unchecked
Construct ==
    /\ spc = "construct"
    /\ Len(built) < Len(ObjectGraph)
    /\ built' = Append(built, ObjectGraph[Len(built) + 1])
    /\ spc' = IF Len(built') = Len(ObjectGraph) THEN "cors" ELSE "construct"
    /\ UNCHANGED <<environ, dotenv, runAsMain, uvicornOk, os_environ, modvars, middleware,
                   routes, server, failure>>
    /\ UNCHANGED <<probeVars, loadVars>>

\* lines 39-172: the next constructor of the external framework raises
ConstructRaise ==
    /\ spc = "construct"
    /\ Len(built) < Len(ObjectGraph)
    /\ failure' = [kind |-> "external", text |-> ObjectGraph[Len(built) + 1]]
    /\ spc' = "aborted"
    /\ UNCHANGED <<environ, dotenv, runAsMain, uvicornOk, os_environ, modvars, built,
                   middleware, routes, server>>
    /\ UNCHANGED <<probeVars, loadVars>>

\* variant of cors_enabled: everything but development counts as production
cors_enabled_nondev(ENV) == ENV # S_development

\* line 175
cors_enabled(ENV) == ENV = S_production

\* lines 175-182: app.add_middleware under the ENV test
InstallCors(mw, ENV) ==
    IF cors_enabled(ENV) THEN Append(mw, CORSMiddleware) ELSE mw

\* lines 174-182
CorsSetup ==
    /\ spc = "cors"
    /\ middleware' = InstallCors(middleware, modvars.ENV)
    /\ spc' = "routes"
    /\ UNCHANGED <<environ, dotenv, runAsMain, uvicornOk, os_environ, modvars, built,
                   routes, server, failure>>
    /\ UNCHANGED <<probeVars, loadVars>>

\* lines 184, 229, 238: the three route decorators
RegisterRoutes ==
    /\ spc = "routes"
    /\ routes' = RouteTable
    /\ spc' = "main"
    /\ UNCHANGED <<environ, dotenv, runAsMain, uvicornOk, os_environ, modvars, built,
                   middleware, server, failure>>
    /\ UNCHANGED <<probeVars, loadVars>>

\* lines 253-264, up to the call of uvicorn.run: import uvicorn, int() of
\* PORT, use_reload
MainBlock ==
    /\ spc = "main"
    /\ runAsMain
    /\ LET p == ParsePort(os_environ) IN
       IF ~uvicornOk
       THEN /\ failure' = [kind |-> "ModuleNotFoundError",
                           text |-> "No module named 'uvicorn'"]
            /\ spc' = "aborted"
            /\ server' = server
       ELSE IF ~p.ok
       THEN /\ failure' = [kind |-> "ValueError", text |-> p.err]
            /\ spc' = "aborted"
            /\ server' = server
       ELSE /\ server' = [bound |-> FALSE, port |-> p.n,
                          reload |-> (modvars.ENV = S_development)]
            /\ spc' = "uvicorn_run"
            /\ failure' = failure
    /\ UNCHANGED <<environ, dotenv, runAsMain, uvicornOk, os_environ, modvars, built,
                   middleware, routes>>
    /\ UNCHANGED <<probeVars, loadVars>>

\* line 259: uvicorn.run is called with whatever int() gave, in range or not;
\* uvicorn binds host 0.0.0.0 and the port and starts serving
UvicornRun ==
    /\ spc = "uvicorn_run"
    /\ server' = [server EXCEPT !.bound = TRUE]
    /\ spc' = "serving"
    /\ UNCHANGED <<environ, dotenv, runAsMain, uvicornOk, os_environ, modvars, built,
                   middleware, routes, failure>>
    /\ UNCHANGED <<probeVars, loadVars>>

\* line 259: uvicorn.run raises (port in use, port out of range)
UvicornRunRaise ==
    /\ spc = "uvicorn_run"
    /\ failure' = [kind |-> "external", text |-> "uvicorn.run"]
    /\ spc' = "aborted"
    /\ UNCHANGED <<environ, dotenv, runAsMain, uvicornOk, os_environ, modvars, built,
                   middleware, routes, server>>
    /\ UNCHANGED <<probeVars, loadVars>>

\* line 253 false: the module was imported; the importing ASGI server binds
\* its own socket and serves app
ImportedServe ==
    /\ spc = "main"
    /\ ~runAsMain
    /\ server' = [server EXCEPT !.bound = TRUE]
    /\ spc' = "serving"
    /\ UNCHANGED <<environ, dotenv, runAsMain, uvicornOk, os_environ, modvars, built,
                   middleware, routes, failure>>
    /\ UNCHANGED <<probeVars, loadVars>>

Serving == spc = "serving" /\ server.bound /\ "app" \in {built[i] : i \in 1..Len(built)}

(***************************************************************************)
(* GET /health and GET /events                                             *)
(***************************************************************************)
NoHealth == [status_code |-> 0,
             body |-> [status |-> "", service |-> "", timestamp |-> 0]]
NoEvents == [status_code |-> 0, body |-> [events |-> << >>], detail |-> ""]

\* variant of health_check: the status reflects a database ping
health_check_dep(t) ==
    IF dbUp
    THEN [status_code |-> 200,
          body |-> [status |-> "healthy", service |-> "SwimBench AI", timestamp |-> t]]
    ELSE [status_code |-> 503,
          body |-> [status |-> "unhealthy", service |-> "SwimBench AI", timestamp |-> t]]

\* lines 232-236
health_check(t) ==
    [status_code |-> 200,
     body |-> [status |-> "healthy", service |-> "SwimBench AI", timestamp |-> t]]

\* lines 229-236
HealthCheck ==
    /\ Serving
    /\ <<"GET", "/health">> \in routes
    /\ health' = health_check(now)
    /\ UNCHANGED <<now, events>>
    /\ UNCHANGED <<startupVars, loadVars>>

\* lines 243-247
EventList ==
    <<"50_freestyle", "100_freestyle", "200_freestyle", "500_freestyle",
      "1650_freestyle", "100_backstroke", "200_backstroke", "100_breaststroke",
      "200_breaststroke", "100_butterfly", "200_butterfly", "200_im", "400_im">>

\* variant of get_available_events: the list is read from ai.swim_events
get_available_events_db ==
    IF dbUp
    THEN [status_code |-> 200, body |-> [events |-> EventList], detail |-> ""]
    ELSE [status_code |-> 500, body |-> [events |-> << >>], detail |-> "connection refused"]

\* lines 241-250: nothing in the try block can raise
get_available_events ==
    [status_code |-> 200, body |-> [events |-> EventList], detail |-> ""]

\* lines 238-250
GetEvents ==
    /\ Serving
    /\ <<"GET", "/events">> \in routes
    /\ events' = get_available_events
    /\ UNCHANGED <<now, health>>
    /\ UNCHANGED <<startupVars, loadVars>>

\* datetime.now() is naive local time: the next reading is any other value,
\* later or earlier
Tick ==
    /\ \E t \in 0..MaxClock : t # now /\ now' = t
    /\ UNCHANGED <<health, events>>
    /\ UNCHANGED <<startupVars, loadVars>>

\* the database, the vector store and the remote URLs come and go
DbFlip ==
    /\ dbUp' = ~dbUp
    /\ UNCHANGED <<kb, raced, pc, calls, resp>>
    /\ UNCHANGED <<startupVars, probeVars>>

(***************************************************************************)
(* POST /loadknowledge                                                     *)
(***************************************************************************)
USA == "USA Swimming Motivational Time Standards 2024-2028"
COLLEGE == "College Swimming Recruiting Standards"
OLD == "previously loaded content"
Docs == {USA, COLLEGE, OLD}

\* what an awaited call can raise: class and str() of the exception; the
\* message may be empty.  Two of the classes derive from Exception, two
\* (asyncio.CancelledError, BaseExceptionGroup) do not
Raisable ==
    {[cls |-> "ConnectionRefusedError", text |-> "connection refused"],
     [cls |-> "TimeoutError", text |-> ""],
     [cls |-> "CancelledError", text |-> ""],
     [cls |-> "BaseExceptionGroup", text |-> "load failed (1 sub-exception)"]}

\* __bases__ of the exception classes of builtins and asyncio (CPython 3.11),
\* by __name__.  A class named nowhere in the table is one a library defines;
\* it is taken to derive from Exception directly
Bases(cls) ==
    CASE cls = "BaseException" -> {}
      [] cls \in {"BaseExceptionGroup", "CancelledError", "Exception", "GeneratorExit",
                  "KeyboardInterrupt", "SystemExit"} -> {"BaseException"}
      [] cls = "ExceptionGroup" -> {"BaseExceptionGroup", "Exception"}
      [] cls \in {"FloatingPointError", "OverflowError", "ZeroDivisionError"} ->
            {"ArithmeticError"}
      [] cls \in {"BrokenPipeError", "ConnectionAbortedError", "ConnectionRefusedError",
                  "ConnectionResetError"} -> {"ConnectionError"}
      [] cls = "IncompleteReadError" -> {"EOFError"}
      [] cls = "ModuleNotFoundError" -> {"ImportError"}
      [] cls = "TabError" -> {"IndentationError"}
      [] cls \in {"IndexError", "KeyError"} -> {"LookupError"}
      [] cls = "UnboundLocalError" -> {"NameError"}
      [] cls \in {"BlockingIOError", "ChildProcessError", "ConnectionError",
                  "FileExistsError", "FileNotFoundError", "InterruptedError",
                  "IsADirectoryError", "NotADirectoryError", "PermissionError",
                  "ProcessLookupError", "TimeoutError"} -> {"OSError"}
      [] cls \in {"BrokenBarrierError", "NotImplementedError", "RecursionError",
                  "SendfileNotAvailableError"} -> {"RuntimeError"}
      [] cls = "IndentationError" -> {"SyntaxError"}
      [] cls \in {"UnicodeDecodeError", "UnicodeEncodeError", "UnicodeTranslateError"} ->
            {"UnicodeError"}
      [] cls = "UnicodeError" -> {"ValueError"}
      [] cls \in {"BytesWarning", "DeprecationWarning", "EncodingWarning",
                  "FutureWarning", "ImportWarning", "PendingDeprecationWarning",
                  "ResourceWarning", "RuntimeWarning", "SyntaxWarning",
                  "UnicodeWarning", "UserWarning"} -> {"Warning"}
      [] OTHER -> {"Exception"}
\* issubclass(cls, anc)
RECURSIVE issubclass(_, _)
issubclass(cls, anc) ==
    \/ cls = anc
    \/ \E b \in Bases(cls) : issubclass(b, anc)
\* line 225: except Exception matches an exception whose class derives from
\* Exception
CaughtByExcept(cls) == issubclass(cls, "Exception")
Caught == {e \in Raisable : CaughtByExcept(e.cls)}

EmptyKb == [d \in Docs |-> 0]

\* variant of Program: the first document is added before the clear
Program_add_first ==
    <<[op |-> "add_content_async", doc |-> USA],
      [op |-> "clear", doc |-> ""],
      [op |-> "add_content_async", doc |-> COLLEGE]>>

\* variant of Program: the clear is missing
Program_noclear ==
    <<[op |-> "add_content_async", doc |-> USA],
      [op |-> "add_content_async", doc |-> COLLEGE]>>

\* variant of Program: the clear comes last
Program_clear_last ==
    <<[op |-> "add_content_async", doc |-> USA],
      [op |-> "add_content_async", doc |-> COLLEGE],
      [op |-> "clear", doc |-> ""]>>

\* lines 189-212: the awaited external calls of the handler, in program order
Program ==
    <<[op |-> "clear", doc |-> ""],
      [op |-> "add_content_async", doc |-> USA],
      [op |-> "add_content_async", doc |-> COLLEGE]>>

\* the handler has ended: it returned, raised HTTPException, or an exception
\* left it
Responded == Len(Program) + 1

\* the contents before the first load
KbBefore == [EmptyKb EXCEPT ![OLD] = 1, ![USA] = 1, ![COLLEGE] = 1]

\* what an external call that returned can have done to the knowledge base; a
\* call that raises is taken to have stored and removed nothing.  Whether the
\* store keeps a second copy of a document it already holds is its own
\* business: either outcome is possible at every call.
Effect(k, step) ==
    IF step.op = "clear" THEN {EmptyKb}
    ELSE IF k[step.doc] > 0 THEN {k, [k EXCEPT ![step.doc] = @ + 1]}
    ELSE {[k EXCEPT ![step.doc] = 1]}

\* a request other than r has had its clear return and its adds are not over
MidLoad(r) ==
    \E q \in Requests \ {r} :
        /\ pc[q] \in 1..Len(Program)
        /\ \E k \in 1..Len(calls[q]) :
              calls[q][k].ev = "return" /\ calls[q][k].op = "clear"

\* a record of the trace; text is the pieces of the message
Ev(e, step, cls, text) ==
    [ev |-> e, op |-> step.op, doc |-> step.doc, cls |-> cls, text |-> <<text>>]
LogEv(level, text) ==
    [ev |-> level, op |-> "logger", doc |-> "", cls |-> "", text |-> text]

NoResp == [status_code |-> 0, status |-> "", message |-> "",
           loaded_documents |-> << >>, detail |-> << >>]

\* lines 216-223
success_payload ==
    [status_code |-> 200, status |-> "success",
     message |-> "SwimBench knowledge base loaded successfully",
     loaded_documents |-> <<"USA Swimming Standards 2024-2028",
                            "College Recruiting Standards">>,
     detail |-> << >>]

\* line 227: HTTPException(status_code=500, detail=f"Error loading knowledge: {str(e)}")
error_response(e) ==
    [status_code |-> 500, status |-> "", message |-> "",
     loaded_documents |-> << >>, detail |-> <<"Error loading knowledge: ", e>>]

\* lines 185-189: the handler runs up to its first await
ReceiveLoad(r) ==
    /\ Serving
    /\ <<"POST", "/loadknowledge">> \in routes
    /\ pc[r] = 0
    /\ calls' = [calls EXCEPT ![r] =
                    <<LogEv("info", <<"Starting SwimBench knowledge loading...">>),
                      Ev("call", Program[1], "", "")>>]
    /\ pc' = [pc EXCEPT ![r] = 1]
    /\ UNCHANGED <<kb, dbUp, raced, resp>>
    /\ UNCHANGED <<startupVars, probeVars>>

\* lines 189-223: the awaited call returns; the handler runs on to its next
\* await, or logs and returns the success payload after the last one
CallReturn(r) ==
    /\ Serving
    /\ pc[r] \in 1..Len(Program)
    /\ dbUp
    /\ kb' \in Effect(kb, Program[pc[r]])
    /\ raced' = (raced \/ (Program[pc[r]].op = "clear" /\ MidLoad(r)))
    /\ IF pc[r] < Len(Program)
       THEN /\ calls' = [calls EXCEPT ![r] =
                           @ \o <<Ev("return", Program[pc[r]], "", ""),
                                  Ev("call", Program[pc[r] + 1], "", "")>>]
            /\ pc' = [pc EXCEPT ![r] = @ + 1]
            /\ resp' = resp
       ELSE /\ calls' = [calls EXCEPT ![r] =
                           @ \o <<Ev("return", Program[pc[r]], "", ""),
                                  LogEv("info",
                                        <<"SwimBench knowledge loading completed successfully">>)>>]
            /\ pc' = [pc EXCEPT ![r] = Responded]
            /\ resp' = [resp EXCEPT ![r] = success_payload]
    /\ UNCHANGED dbUp
    /\ UNCHANGED <<startupVars, probeVars>>

\* variant of CallRaise: the except branch logs and answers with the success payload
CallRaise_swallow(r) ==
    /\ Serving
    /\ pc[r] \in 1..Len(Program)
    /\ \E e \in Caught :
          calls' = [calls EXCEPT ![r] =
                       @ \o <<Ev("raise", Program[pc[r]], e.cls, e.text), LogEv("error", <<"Error loading SwimBench knowledge: ", e.text>>)>>]
    /\ resp' = [resp EXCEPT ![r] = success_payload]
    /\ pc' = [pc EXCEPT ![r] = Responded]
    /\ UNCHANGED <<kb, dbUp, raced>>
    /\ UNCHANGED <<startupVars, probeVars>>

\* variant of CallRaise: each call has its own try block, a failed call is
\* logged and the handler goes on to the next call
CallRaise_continue(r) ==
    /\ Serving
    /\ pc[r] \in 1..Len(Program)
    /\ \E e \in Caught :
          IF pc[r] < Len(Program)
          THEN /\ calls' = [calls EXCEPT ![r] =
                              @ \o <<Ev("raise", Program[pc[r]], e.cls, e.text), LogEv("error", <<"Error loading SwimBench knowledge: ", e.text>>),
                                     Ev("call", Program[pc[r] + 1], "", "")>>]
               /\ pc' = [pc EXCEPT ![r] = @ + 1]
               /\ resp' = resp
          ELSE /\ calls' = [calls EXCEPT ![r] =
                              @ \o <<Ev("raise", Program[pc[r]], e.cls, e.text), LogEv("error", <<"Error loading SwimBench knowledge: ", e.text>>)>>]
               /\ pc' = [pc EXCEPT ![r] = Responded]
               /\ resp' = [resp EXCEPT ![r] = error_response(e.text)]
    /\ UNCHANGED <<kb, dbUp, raced>>
    /\ UNCHANGED <<startupVars, probeVars>>

\* variant of CallRaise: the except branch wipes the knowledge base before answering
CallRaise_cleanup(r) ==
    /\ Serving
    /\ pc[r] \in 1..Len(Program)
    /\ \E e \in Caught :
          /\ calls' = [calls EXCEPT ![r] =
                          @ \o <<Ev("raise", Program[pc[r]], e.cls, e.text), LogEv("error", <<"Error loading SwimBench knowledge: ", e.text>>)>>]
          /\ resp' = [resp EXCEPT ![r] = error_response(e.text)]
    /\ kb' = EmptyKb
    /\ pc' = [pc EXCEPT ![r] = Responded]
    /\ UNCHANGED <<dbUp, raced>>
    /\ UNCHANGED <<startupVars, probeVars>>

\* lines 225-227: the awaited call raises.  An exception that except Exception
\* catches is logged and answered with 500; any other leaves the handler
\* unlogged and the handler produces no response
CallRaise(r) ==
    /\ Serving
    /\ pc[r] \in 1..Len(Program)
    /\ \E e \in Raisable :
          IF CaughtByExcept(e.cls)
          THEN /\ calls' = [calls EXCEPT ![r] =
                              @ \o <<Ev("raise", Program[pc[r]], e.cls, e.text),
                                     LogEv("error",
                                           <<"Error loading SwimBench knowledge: ",
                                             e.text>>)>>]
               /\ resp' = [resp EXCEPT ![r] = error_response(e.text)]
          ELSE /\ calls' = [calls EXCEPT ![r] =
                              @ \o <<Ev("raise", Program[pc[r]], e.cls, e.text)>>]
               /\ resp' = resp
    /\ pc' = [pc EXCEPT ![r] = Responded]
    /\ UNCHANGED <<kb, dbUp, raced>>
    /\ UNCHANGED <<startupVars, probeVars>>

(***************************************************************************)
(* Specifications                                                          *)
(***************************************************************************)
KeyValues  == {Absent, Val(S_empty), Val(S_key)}
EnvValues  == {Absent, Val(S_production), Val(S_Production)}
PortValues == {Absent, Val(S_8080), Val(S_sp80), Val(S_minus80), Val(S_cr80crlf),
               Val(S_arabic80), Val(S_abc), Val(S_empty), Val(S_long)}

LoadIdle ==
    /\ kb = KbBefore
    /\ dbUp \in BOOLEAN
    /\ raced = FALSE
    /\ pc = [r \in Requests |-> 0]
    /\ calls = [r \in Requests |-> << >>]
    /\ resp = [r \in Requests |-> NoResp]

ProbesIdle ==
    /\ now = 0
    /\ health = NoHealth
    /\ events = NoEvents

\* the interpreter is about to execute line 26
InitStartup ==
    /\ environ \in {[n \in EnvNames |->
                        CASE n = "OPENAI_API_KEY" -> k
                          [] n = "ENV" -> e
                          [] n = "PORT" -> p
                          [] n = "DATABASE_CONNECTION_STRING" -> c
                          [] OTHER -> d] :
                    k \in KeyValues, e \in EnvValues, p \in PortValues,
                    c \in {Absent, Val(S_url)}, d \in {Absent, Val(S_abc)}}
    /\ dotenv \in {[n \in EnvNames |->
                        CASE n = "OPENAI_API_KEY" -> k
                          [] n = "ENV" -> e
                          [] OTHER -> Absent] :
                   k \in {Absent, Val(S_key)}, e \in {Absent, Val(S_production)}}
    /\ runAsMain \in BOOLEAN
    /\ uvicornOk \in BOOLEAN
    /\ os_environ = environ
    /\ spc = "load_dotenv"
    /\ modvars = NoModvars
    /\ built = << >>
    /\ middleware = << >>
    /\ routes = {}
    /\ server = NoServer
    /\ failure = NoFailure
    /\ ProbesIdle
    /\ kb = [EmptyKb EXCEPT ![OLD] = 1]
    /\ dbUp = TRUE
    /\ raced = FALSE
    /\ pc = [r \in Requests |-> 0]
    /\ calls = [r \in Requests |-> << >>]
    /\ resp = [r \in Requests |-> NoResp]

NextStartup ==
    \/ LoadDotenv
    \/ ReadEnv
    \/ CheckKey
    \/ Construct
    \/ ConstructRaise
    \/ CorsSetup
    \/ RegisterRoutes
    \/ MainBlock
    \/ UvicornRun
    \/ UvicornRunRaise
    \/ ImportedServe
    \/ HealthCheck
    \/ GetEvents
    \/ Tick

SpecStartup == InitStartup /\ [][NextStartup]_vars

\* the state after construction: the module body has run to the end and
\* uvicorn serves app
Init ==
    /\ environ = [n \in EnvNames |->
                     IF n = "OPENAI_API_KEY" THEN Val(S_key) ELSE Absent]
    /\ dotenv = [n \in EnvNames |-> Absent]
    /\ runAsMain = TRUE
    /\ uvicornOk = TRUE
    /\ os_environ = load_dotenv(environ, dotenv)
    /\ spc = "serving"
    /\ modvars = ReadModvars(os_environ)
    /\ built = ObjectGraph
    /\ middleware = InstallCors(<< >>, modvars.ENV)
    /\ routes = RouteTable
    /\ server = [bound |-> TRUE, port |-> ParsePort(os_environ).n,
                 reload |-> (modvars.ENV = S_development)]
    /\ failure = NoFailure
    /\ ProbesIdle
    /\ LoadIdle

Next ==
    \/ \E r \in Requests : ReceiveLoad(r)
    \/ \E r \in Requests : CallReturn(r)
    \/ \E r \in Requests : CallRaise(r)
    \/ HealthCheck
    \/ GetEvents
    \/ Tick
    \/ DbFlip

Spec == Init /\ [][Next]_vars

(***************************************************************************)
(* Properties                                                              *)
(***************************************************************************)
ClearCall == [op |-> "clear", doc |-> ""]
AddUSA == [op |-> "add_content_async", doc |-> USA]
AddCollege == [op |-> "add_content_async", doc |-> COLLEGE]
Order == <<ClearCall, AddUSA, AddCollege>>

\* the external-call events of request r, log records left out
Ext(r) == SelectSeq(calls[r], LAMBDA x : x.op # "logger")
Has(r, e, step) ==
    \E k \in 1..Len(calls[r]) :
        calls[r][k].ev = e /\ calls[r][k].op = step.op /\ calls[r][k].doc = step.doc
Count(r, e, step) ==
    Cardinality({k \in 1..Len(calls[r]) :
        calls[r][k].ev = e /\ calls[r][k].op = step.op /\ calls[r][k].doc = step.doc})
AllReturned(r) == \A i \in 1..3 : Has(r, "return", Order[i])
SomeRaised(r) == \E i \in 1..3 : Has(r, "raise", Order[i])
\* the classes of the exceptions drawn that lie outside Exception: BaseException
\* itself and its direct subclasses other than Exception
OutsideException ==
    {"BaseException", "BaseExceptionGroup", "CancelledError", "GeneratorExit",
     "KeyboardInterrupt", "SystemExit"}
\* a call of r raised an exception of a class derived from Exception
RaisedException(r) ==
    \E k \in 1..Len(calls[r]) :
        calls[r][k].ev = "raise" /\ calls[r][k].cls \notin OutsideException
\* a call of r raised an exception of a class outside Exception
RaisedOutside(r) ==
    \E k \in 1..Len(calls[r]) :
        calls[r][k].ev = "raise" /\ calls[r][k].cls \in OutsideException
Ended(r) == pc[r] = Len(Order) + 1
Finished(r) == resp[r].status_code # 0
InFlight(r) == calls[r] # << >> /\ ~Finished(r)
Succeeded(r) == resp[r].status_code = 200
Alone(r) == \A q \in Requests \ {r} : calls[q] = << >>

\* C1 as stated: a request whose handler has ended answered either 200 with
\* status "success" or 500 carrying the text of the exception; 200 exactly
\* when its clear and both add-content calls returned, 500 whenever one of
\* them raised.
C1_Original ==
    \A r \in Requests :
        Ended(r) =>
            /\ resp[r].status_code \in {200, 500}
            /\ resp[r].status_code = 200 <=> AllReturned(r)
            /\ SomeRaised(r) =>
                  /\ resp[r].status_code = 500
                  /\ \E k \in 1..Len(calls[r]) :
                        /\ calls[r][k].ev = "raise"
                        /\ resp[r].detail =
                              <<"Error loading knowledge: ", calls[r][k].text[1]>>

\* C1: a request that produced a response answered either 200 with status
\* "success" or 500 carrying the text of the exception; it answered 200 exactly
\* when its clear and both add-content calls returned, and 500 exactly when
\* one of them raised an exception derived from Exception.  When a call raised
\* an exception outside Exception (BaseException, BaseExceptionGroup,
\* asyncio.CancelledError, GeneratorExit, KeyboardInterrupt, SystemExit) the
\* exception left the handler: nothing was logged and the handler produced no
\* response.
C1_Outcome ==
    \A r \in Requests :
        /\ resp[r].status_code \in {0, 200, 500}
        /\ Finished(r) => Ended(r)
        /\ resp[r].status_code = 200 =>
              /\ resp[r].status = "success"
              /\ AllReturned(r)
              /\ ~SomeRaised(r)
        /\ resp[r].status_code = 500 =>
              /\ resp[r].status # "success"
              /\ resp[r].loaded_documents = << >>
              /\ ~AllReturned(r)
              /\ \E k \in 1..Len(calls[r]) :
                    /\ calls[r][k].ev = "raise"
                    /\ calls[r][k].cls \notin OutsideException
                    /\ resp[r].detail =
                          <<"Error loading knowledge: ", calls[r][k].text[1]>>
        /\ (Ended(r) /\ AllReturned(r)) => resp[r].status_code = 200
        /\ RaisedException(r) => resp[r].status_code = 500
        /\ RaisedOutside(r) =>
              /\ Ended(r)
              /\ resp[r] = NoResp
              /\ \A k \in 1..Len(calls[r]) : calls[r][k].ev # "error"

\* one request answered 500 for an exception with an empty message, the other
\* was left by a BaseExceptionGroup raised by its first add
C1_Witness ==
    \E q, o \in Requests :
        /\ resp[q].status_code = 500
        /\ Has(q, "raise", AddCollege)
        /\ RaisedException(q)
        /\ resp[q].detail = <<"Error loading knowledge: ", "">>
        /\ Has(o, "raise", AddUSA)
        /\ \E k \in 1..Len(calls[o]) :
              calls[o][k].ev = "raise" /\ calls[o][k].cls = "BaseExceptionGroup"
        /\ resp[o] = NoResp

\* C2 as stated: with OPENAI_API_KEY set neither in the environment nor in
\* .env, startup aborts before any object is built, no server binds and no
\* route is served; and no value of another environment variable makes the
\* module's own code fail.
KeyUnset == ~environ["OPENAI_API_KEY"].present /\ ~dotenv["OPENAI_API_KEY"].present
KeyFalsy ==
    IF environ["OPENAI_API_KEY"].present
    THEN environ["OPENAI_API_KEY"].value = << >>
    ELSE ~dotenv["OPENAI_API_KEY"].present \/ dotenv["OPENAI_API_KEY"].value = << >>
NothingStarted ==
    /\ built = << >>
    /\ middleware = << >>
    /\ routes = {}
    /\ ~server.bound
    /\ health.status_code = 0
    /\ events.status_code = 0
    /\ spc \in {"load_dotenv", "getenv", "check_key", "aborted"}
    /\ spc = "aborted" =>
          failure = [kind |-> "ValueError", text |-> "OPENAI_API_KEY not set in .env"]
C2_Original ==
    /\ KeyUnset => NothingStarted
    /\ failure.kind = "ValueError" => KeyFalsy

\* C2: with OPENAI_API_KEY set neither in the environment nor in .env, startup
\* aborts with ValueError before any object is built, no server binds and no
\* route is served.  Of the other environment variables only PORT can make the
\* module's own code fail: when the module runs as __main__, uvicorn is
\* importable and PORT is present but not an integer literal that int()
\* accepts (letters, the empty string, more than 4300 digits), int() raises
\* ValueError after the object graph is built and before the server binds.
PortNotInt ==
    /\ runAsMain
    /\ environ["PORT"].present
    /\ environ["PORT"].value \in {S_abc, S_empty, S_long}
C2_StartupAbort ==
    /\ KeyUnset => NothingStarted
    /\ KeyFalsy => NothingStarted
    /\ failure.kind = "ValueError" =>
          \/ KeyFalsy
          \/ /\ PortNotInt
             /\ built = ObjectGraph
             /\ ~server.bound
             /\ spc = "aborted"
    /\ (PortNotInt /\ spc \in {"uvicorn_run", "serving"}) => FALSE
    /\ failure.kind = "ModuleNotFoundError" =>
          (runAsMain /\ ~uvicornOk /\ ~KeyFalsy /\ built = ObjectGraph /\ ~server.bound)
    /\ failure.kind \in {"none", "ValueError", "ModuleNotFoundError", "external"}

C2_Witness ==
    /\ KeyUnset
    /\ spc = "aborted"
    /\ failure.kind = "ValueError"
    /\ environ["ENV"].present
    /\ environ["PORT"].present

\* C3 as stated: a request running alone whose clear returned and one of whose
\* add-content calls raised leaves the knowledge base empty.
C3_Original ==
    \A r \in Requests :
        (Alone(r) /\ Finished(r) /\ Has(r, "return", ClearCall) /\ SomeRaised(r))
            => kb = EmptyKb

\* C3: a request running alone whose clear returned leaves the knowledge base
\* empty when its first add-content call raised, and holding exactly one copy
\* of the USA Swimming standards document when its second add-content call
\* raised.
C3_PartialLoad ==
    \A r \in Requests :
        (Alone(r) /\ Finished(r) /\ Has(r, "return", ClearCall)) =>
            /\ Has(r, "raise", AddUSA) => (kb = EmptyKb /\ resp[r].status_code = 500)
            /\ Has(r, "raise", AddCollege) =>
                  (kb = [EmptyKb EXCEPT ![USA] = 1] /\ resp[r].status_code = 500)

C3_Witness ==
    \E r \in Requests :
        /\ Alone(r)
        /\ resp[r].status_code = 500
        /\ Has(r, "return", ClearCall)
        /\ Has(r, "raise", AddCollege)
        /\ kb = [EmptyKb EXCEPT ![USA] = 1]

\* no request other than r and q has run
OthersIdle(r, q) == \A o \in Requests \ {r, q} : calls[o] = << >>
\* the knowledge base holds one of the two documents and not the other
OneDocumentOnly ==
    /\ kb[OLD] = 0
    /\ (kb[USA] > 0) # (kb[COLLEGE] > 0)
Added(r, step) == IF Has(r, "return", step) THEN 1 ELSE 0
AddRaised(r) == Has(r, "raise", AddUSA) \/ Has(r, "raise", AddCollege)
\* while a request is in flight another can be received, and the awaited call
\* of another request in flight can return (store reachable) or raise
NoExclusion ==
    \A r, q \in Requests :
        (r # q /\ InFlight(r) /\ ~Ended(r)) =>
            /\ pc[q] = 0 => ENABLED ReceiveLoad(q)
            /\ (InFlight(q) /\ ~Ended(q)) => ENABLED CallRaise(q)
            /\ (InFlight(q) /\ ~Ended(q) /\ dbUp) => ENABLED CallReturn(q)

C5_HealthResponse ==
    /\ (health.status_code # 0) =>
          /\ health.status_code = 200
          /\ health.body.status = "healthy"
          /\ health.body.service = "SwimBench AI"
          /\ health.body.timestamp \in 0..MaxClock
    /\ Serving => ENABLED HealthCheck
C5_HealthStep ==
    (health' # health) =>
        /\ health'.status_code = 200
        /\ health'.body.status = "healthy"
        /\ health'.body.timestamp = now
        /\ UNCHANGED <<kb, pc, calls, resp, dbUp, events>>
C5_Health == [](C5_HealthResponse) /\ [][C5_HealthStep]_vars

C5_Witness ==
    /\ health.status_code = 200
    /\ health.body.timestamp > now
    /\ ~dbUp
    /\ \E r \in Requests : InFlight(r)
    /\ \E r \in Requests : resp[r].status_code = 500

\* C6: GET /events answers 200 with the same list of 13 event names in the
\* same order in every state, never 500, and changes nothing else.
C6_EventsResponse ==
    /\ (events.status_code # 0) =>
          /\ events.status_code = 200
          /\ Len(events.body.events) = 13
          /\ events.body.events =
                <<"50_freestyle", "100_freestyle", "200_freestyle", "500_freestyle",
                  "1650_freestyle", "100_backstroke", "200_backstroke",
                  "100_breaststroke", "200_breaststroke", "100_butterfly",
                  "200_butterfly", "200_im", "400_im">>
    /\ Serving => ENABLED GetEvents
C6_EventsStep ==
    (events' # events) => UNCHANGED <<kb, pc, calls, resp, dbUp, health>>
C6_Events == [](C6_EventsResponse) /\ [][C6_EventsStep]_vars

C6_Witness ==
    /\ events.status_code = 200
    /\ ~dbUp
    /\ \E r \in Requests : InFlight(r)
    /\ \E r \in Requests : resp[r].status_code = 500

\* C7: once the CORS branch has run, the allow-all CORS middleware is on the
\* application exactly when ENV (from the environment, else from .env, else
\* "development") is "production"; before that and for every other value no
\* middleware is installed, and the answer never changes afterwards.
StartupENV ==
    IF environ["ENV"].present THEN environ["ENV"].value
    ELSE IF dotenv["ENV"].present THEN dotenv["ENV"].value
    ELSE S_development
CorsDecided == Len(built) = Len(ObjectGraph) /\ spc # "cors"
C7_Cors ==
    /\ (CorsDecided /\ StartupENV = S_production) => middleware = <<CORSMiddleware>>
    /\ (CorsDecided /\ StartupENV # S_production) => middleware = << >>
    /\ ~CorsDecided => middleware = << >>
    /\ middleware # << >> =>
          /\ middleware[1].allow_origins = "*"
          /\ middleware[1].allow_methods = "*"
          /\ middleware[1].allow_headers = "*"

C7_Witness ==
    /\ Serving
    /\ health.status_code = 200
    /\ middleware = <<CORSMiddleware>>
    /\ ~environ["ENV"].present

\* C8: the external calls of one request happen in the order clear, add of the
\* USA Swimming standards document, add of the college recruiting document;
\* each call starts only after the previous one returned, and the success
\* response exists only after the second add returned.
C8_CallOrder ==
    \A r \in Requests :
        LET ext == Ext(r) IN
        /\ Len(ext) <= 6
        /\ \A k \in 1..Len(ext) :
              /\ ext[k].op = Order[(k + 1) \div 2].op
              /\ ext[k].doc = Order[(k + 1) \div 2].doc
              /\ (k % 2 = 1) => ext[k].ev = "call"
              /\ (k % 2 = 0) => ext[k].ev \in {"return", "raise"}
              /\ (k % 2 = 0 /\ k < Len(ext)) => ext[k].ev = "return"
              /\ (k % 2 = 1 /\ k > 1) => ext[k - 1].ev = "return"
        /\ Succeeded(r) => (Len(ext) = 6 /\ ext[6].ev = "return")
        /\ (calls[r] # << >>) => calls[r][1].op = "logger"

C8_Witness ==
    \E r, q \in Requests :
        /\ Succeeded(r)
        /\ Len(Ext(r)) = 6
        /\ InFlight(q)
        /\ Len(Ext(q)) = 3

\* C9: each of clear, first add and second add is invoked at most once per
\* request; a call that raised, whatever the exception, is the last call of
\* its request, whose handler has then ended without success; and the step in
\* which the exception is handled leaves the knowledge base as it was.
C9_AbortState ==
    \A r \in Requests :
        LET ext == Ext(r) IN
        /\ \A i \in 1..3 : Count(r, "call", Order[i]) <= 1
        /\ \A k \in 1..Len(ext) :
              ext[k].ev = "raise" =>
                  /\ k = Len(ext)
                  /\ Ended(r)
                  /\ resp[r].status_code # 200
        /\ Has(r, "raise", ClearCall) =>
              (~Has(r, "call", AddUSA) /\ ~Has(r, "call", AddCollege))
        /\ Has(r, "raise", AddUSA) => ~Has(r, "call", AddCollege)
C9_AbortStep ==
    \A r \in Requests :
        (~SomeRaised(r) /\ SomeRaised(r)') => kb' = kb
C9_Abort == [](C9_AbortState) /\ [][C9_AbortStep]_vars

C9_Witness ==
    \E r \in Requests :
        /\ Has(r, "return", ClearCall)
        /\ Has(r, "raise", AddUSA)
        /\ resp[r].status_code = 500
        /\ kb = EmptyKb

\* C10: when every request that ran has answered success and none is in
\* flight, the knowledge base holds the USA Swimming standards document and the
\* college recruiting document, each at least once, and nothing else.
C10_AllSucceeded ==
    ((\E r \in Requests : Finished(r))
        /\ \A r \in Requests : calls[r] = << >> \/ Succeeded(r)) =>
            /\ kb[USA] >= 1
            /\ kb[COLLEGE] >= 1
            /\ kb[OLD] = 0

C10_Witness ==
    /\ \A r \in Requests : Succeeded(r)
    /\ kb[USA] = 1
    /\ kb[COLLEGE] = NumReq

====
